---- MODULE Spec2Model ----
(***************************************************************************)
(* Model of deploy.py: the mod-bundle build pipeline                       *)
(*   load_sources -> init_deployment -> populate_dependencies ->           *)
(*   zip_deployment                                                        *)
(* over a filesystem holding sources/mods.yml, template/ and deployment/.  *)
(* The interpreter runs with assert statements enabled (the default).      *)
(***************************************************************************)
EXTENDS Integers, Sequences, FiniteSets, TLC

VARIABLES
  yaml_data,    \* parsed content of sources/mods.yml: a sequence of blocks
  template,     \* parsed content of template/manifest.json: key -> value
  assets,       \* names of the files present in template/ (static assets)
  deploy_root,  \* what DEPLOY_DIR ("deployment") is: "none", "file", "dir"
  fs,           \* entries inside DEPLOY_DIR: path name -> entry
  today,        \* index of the current calendar day (datetime.now())
  pc,           \* position of deploy_it
  mods,         \* local `mods` of deploy_it
  deploy_dir,   \* local `deploy_dir` of deploy_it (name inside DEPLOY_DIR)
  found,        \* what _refresh saw at the deployment path in this run
  failed_step,  \* the step of this run that raised, or "none"
  runs,         \* number of invocations of deploy_it so far
  prev          \* deployment directory left by the last successful run

vars ==
  <<yaml_data, template, assets, deploy_root, fs, today, pc, mods,
    deploy_dir, found, failed_step, runs, prev>>

inputs == <<yaml_data, template, assets, deploy_root>>

(* ------------------------------ bounds --------------------------------- *)

MaxMods == 2

MaxDay == 2

MaxRuns == 2

(* --------------------------- module constants -------------------------- *)

DEPLOY_NAME_SLUG == "sivad"

STATIC_TEMPLATE_FILES == <<"icon.png", "README.md">>

MANIFEST_NAME == "manifest.json"

VERSION_KEYS == {"major", "minor", "patch"}

(* ------------------------------ values --------------------------------- *)

\* YAML scalars carry their Python type, so that `isinstance(name, str)` and
\* `is True or is False` are decided on the type and not on truthiness.
YStr(s) == [t |-> "str", v |-> s]

YBool(b) == [t |-> "bool", v |-> b]

YInt(n) == [t |-> "int", v |-> n]

Ok(val) == [ok |-> TRUE, val |-> val]

Raise(err) == [ok |-> FALSE, val |-> err]

(* ------------------------------ ModInfo -------------------------------- *)

\* ModInfo.format_version
format_version(version_dict) ==
  IF DOMAIN version_dict # VERSION_KEYS
    THEN Raise("AssertionError")
    ELSE Ok(ToString(version_dict["major"]) \o "." \o
            ToString(version_dict["minor"]) \o "." \o
            ToString(version_dict["patch"]))

\* ModInfo.from_dict
from_dict(yaml_block) ==
  IF "name" \notin DOMAIN yaml_block THEN Raise("KeyError")
  ELSE IF yaml_block["name"].t # "str" THEN Raise("AssertionError")
  ELSE IF "versionNumber" \notin DOMAIN yaml_block THEN Raise("KeyError")
  ELSE LET version == format_version(yaml_block["versionNumber"]) IN
    IF ~version.ok THEN version
    ELSE IF "enabled" \notin DOMAIN yaml_block THEN Raise("KeyError")
    ELSE IF yaml_block["enabled"].t # "bool" THEN Raise("AssertionError")
    ELSE Ok([name |-> yaml_block["name"].v,
             version |-> version.val,
             is_enabled |-> yaml_block["enabled"].v,
             semver_string |-> yaml_block["name"].v \o "-" \o version.val])

is_enabled(mod) == mod.is_enabled

\* the list comprehension of load_yaml over every block of the file
parse_all(data) == [i \in 1..Len(data) |-> from_dict(data[i])]

\* load_yaml without the filter on is_enabled
load_yaml_keep_all(data) ==
  LET parsed == parse_all(data) IN
    IF \E i \in 1..Len(data) : ~parsed[i].ok
      THEN Raise("AssertionError")
      ELSE Ok([i \in 1..Len(data) |-> parsed[i].val])

\* load_yaml dropping the blocks that do not convert
load_yaml_skip_bad(data) ==
  LET parsed == parse_all(data)
      good == SelectSeq(parsed, LAMBDA r : r.ok)
  IN  Ok(SelectSeq([i \in 1..Len(good) |-> good[i].val], is_enabled))

\* load_yaml: every block is converted first, then the enabled ones are kept
load_yaml(data) ==
  LET parsed == parse_all(data) IN
    IF \E i \in 1..Len(data) : ~parsed[i].ok
      THEN Raise(parsed[CHOOSE i \in 1..Len(data) :
                          /\ ~parsed[i].ok
                          /\ \A j \in 1..(i - 1) : parsed[j].ok].val)
      ELSE Ok(SelectSeq([i \in 1..Len(data) |-> parsed[i].val], is_enabled))

\* load_sources
load_sources(data) == load_yaml(data)

(* ------------------------------ Manifest ------------------------------- *)

MANIFEST_KEYS ==
  <<"name", "version_number", "website_url", "description", "dependencies">>

\* from_template_path without `assert dependencies == []`
from_template_path_unchecked(data) ==
  IF \E i \in 1..Len(MANIFEST_KEYS) : MANIFEST_KEYS[i] \notin DOMAIN data
    THEN Raise("KeyError")
  ELSE Ok([name |-> data["name"],
           version_number |-> data["version_number"],
           website_url |-> data["website_url"],
           description |-> data["description"],
           dependencies |-> data["dependencies"]])

\* Manifest.from_template_path
from_template_path(data) ==
  IF \E i \in 1..Len(MANIFEST_KEYS) : MANIFEST_KEYS[i] \notin DOMAIN data
    THEN Raise("KeyError")
  ELSE IF data["dependencies"] # <<>> THEN Raise("AssertionError")
  ELSE Ok([name |-> data["name"],
           version_number |-> data["version_number"],
           website_url |-> data["website_url"],
           description |-> data["description"],
           dependencies |-> data["dependencies"]])

\* read_manifest_template
read_manifest_template(data) == from_template_path(data)

\* with_deps passing the template's own dependencies on
with_deps_kept(self, mod_list) ==
  [name |-> self.name,
   version_number |-> self.version_number,
   website_url |-> self.website_url,
   description |-> self.description,
   dependencies |-> self.dependencies]

\* Manifest.with_deps
with_deps(self, mod_list) ==
  [name |-> self.name,
   version_number |-> self.version_number,
   website_url |-> self.website_url,
   description |-> self.description,
   dependencies |-> [i \in 1..Len(mod_list) |-> mod_list[i].semver_string]]

\* Manifest.to_json: the JSON document as its ordered key/value members;
\* json.dumps renders this sequence to text deterministically.
to_json(self) ==
  << <<"name", self.name>>,
     <<"version_number", self.version_number>>,
     <<"website_url", self.website_url>>,
     <<"description", self.description>>,
     <<"dependencies", self.dependencies>> >>

(* ----------------------------- filesystem ------------------------------ *)

NoEntry == [kind |-> "none", data |-> "", files |-> <<>>]

EmptyDir == [kind |-> "dir", data |-> "", files |-> <<>>]

File(data) == [kind |-> "file", data |-> data]

SubDir == [kind |-> "dir", data |-> ""]

\* bytes of a static asset in template/
AssetData(name) == name \o " (template)"

\* a date as <<day, month, year>>
DateOf(day) ==
  IF day = 1 THEN <<30, 12, 2025>>
  ELSE IF day = 2 THEN <<31, 12, 2025>>
  ELSE <<day - 2, 1, 2026>>

Pad2(n) == IF n < 10 THEN "0" \o ToString(n) ELSE ToString(n)

\* datetime.strftime(ts, format="%d-%m-%y")
strftime(date) ==
  Pad2(date[1]) \o "-" \o Pad2(date[2]) \o "-" \o Pad2(date[3] % 100)

\* deploy_name of init_deployment
DeployName(day) == DEPLOY_NAME_SLUG \o "_" \o strftime(DateOf(day))

\* the file shutil.make_archive writes for base name zip_path
ArchiveName(zip_path) == zip_path \o ".zip"

Paths ==
  {DeployName(d) : d \in 1..MaxDay} \cup
  {ArchiveName(DeployName(d)) : d \in 1..MaxDay}

\* Path.is_file / Path.exists below DEPLOY_DIR; an entry of kind "symlink" is
\* a symbolic link to a directory: it exists and is not a regular file
is_file(f, path) == deploy_root = "dir" /\ f[path].kind = "file"

exists(f, path) == deploy_root = "dir" /\ f[path].kind # "none"

\* result of a filesystem operation: the filesystem it leaves behind, also
\* when it raises
FsOk(f) == [ok |-> TRUE, fs |-> f, err |-> ""]

FsRaise(f, err) == [ok |-> FALSE, fs |-> f, err |-> err]

\* shutil.rmtree: removes a directory tree; it refuses a symbolic link
\* ("Cannot call rmtree on a symbolic link") and anything not a directory
rmtree(f, path) ==
  IF f[path].kind = "dir"
    THEN FsOk([f EXCEPT ![path] = NoEntry])
    ELSE FsRaise(f, "OSError")

\* Path.mkdir(): no parents, no exist_ok
mkdir(f, path) ==
  IF deploy_root = "none" THEN FsRaise(f, "FileNotFoundError")
  ELSE IF deploy_root = "file" THEN FsRaise(f, "NotADirectoryError")
  ELSE IF f[path].kind # "none" THEN FsRaise(f, "FileExistsError")
  ELSE FsOk([f EXCEPT ![path] = EmptyDir])

\* write (create or replace) one file of a directory
PutFile(f, path, name, child) ==
  [f EXCEPT ![path].files =
     [n \in (DOMAIN @) \cup {name} |-> IF n = name THEN child ELSE @[n]]]

\* _refresh as mkdir(exist_ok=True): an existing directory is kept
_refresh_exist_ok(f, path) ==
  IF is_file(f, path) THEN FsRaise(f, "RuntimeError")
  ELSE IF exists(f, path)
    THEN IF f[path].kind = "dir" THEN FsOk(f) ELSE FsRaise(f, "OSError")
    ELSE mkdir(f, path)

\* _refresh without the is_file guard: whatever is there is removed
_refresh_overwrite(f, path) ==
  IF exists(f, path)
    THEN mkdir([f EXCEPT ![path] = NoEntry], path)
    ELSE mkdir(f, path)

\* init_deployment._refresh
_refresh(f, path) ==
  IF is_file(f, path) THEN FsRaise(f, "RuntimeError")
  ELSE IF exists(f, path)
    THEN LET removed == rmtree(f, path) IN
           IF removed.ok THEN mkdir(removed.fs, path) ELSE removed
    ELSE mkdir(f, path)

\* shutil.copy(TEMPLATE_DIR / static_file, deployment_path / static_file)
copy(f, path, static_file) ==
  IF static_file \notin assets THEN FsRaise(f, "FileNotFoundError")
  ELSE IF path \notin DOMAIN f \/ f[path].kind # "dir"
    THEN FsRaise(f, "FileNotFoundError")
  ELSE FsOk(PutFile(f, path, static_file, File(AssetData(static_file))))

RECURSIVE copy_from(_, _, _)
\* the loop of copy_template_files from the i-th static file on
copy_from(f, path, i) ==
  IF i > Len(STATIC_TEMPLATE_FILES) THEN FsOk(f)
  ELSE LET copied == copy(f, path, STATIC_TEMPLATE_FILES[i]) IN
         IF copied.ok THEN copy_from(copied.fs, path, i + 1) ELSE copied

\* copy_template_files missing the first static file
copy_template_files_skip(f, path) == copy_from(f, path, 2)

\* copy_template_files
copy_template_files(f, path) == copy_from(f, path, 1)

\* init_deployment refreshing only when nothing is at the path
init_deployment_reuse(f, day) ==
  LET deployment_path == DeployName(day) IN
    IF exists(f, deployment_path)
      THEN copy_template_files(f, deployment_path)
      ELSE LET refreshed == _refresh(f, deployment_path) IN
             IF refreshed.ok
               THEN copy_template_files(refreshed.fs, deployment_path)
               ELSE refreshed

\* init_deployment on calendar day `day`
init_deployment(f, day) ==
  LET deployment_path == DeployName(day)
      refreshed == _refresh(f, deployment_path)
  IN  IF refreshed.ok
        THEN copy_template_files(refreshed.fs, deployment_path)
        ELSE refreshed

\* Manifest.write_to
write_to(self, f, dir, name) ==
  IF dir \notin DOMAIN f \/ f[dir].kind # "dir"
    THEN FsRaise(f, "FileNotFoundError")
    ELSE FsOk(PutFile(f, dir, name, File(to_json(self))))

\* write_manifest_json
write_manifest_json(mod_list, f, dir, name) ==
  LET template_manifest == read_manifest_template(template) IN
    IF template_manifest.ok
      THEN write_to(with_deps(template_manifest.val, mod_list), f, dir, name)
      ELSE FsRaise(f, template_manifest.val)

\* populate_dependencies
populate_dependencies(mod_list, f, dir) ==
  write_manifest_json(mod_list, f, dir, MANIFEST_NAME)

\* make_archive opening an existing archive for appending
make_archive_append(f, zip_path, root_dir) ==
  LET archive == ArchiveName(zip_path) IN
    IF root_dir \notin DOMAIN f \/ f[root_dir].kind # "dir"
      THEN FsRaise(f, "NotADirectoryError")
    ELSE IF f[archive].kind \notin {"none", "file"}
      THEN FsRaise(f, "IsADirectoryError")
    ELSE FsOk([f EXCEPT ![archive] =
                 [kind |-> "file", data |-> "zip",
                  files |-> f[root_dir].files @@ f[archive].files]])

\* shutil.make_archive(zip_path, format="zip", root_dir=deploy_dir): the
\* archive is opened for writing (replacing any file there) and receives
\* every entry below root_dir
make_archive(f, zip_path, root_dir) ==
  LET archive == ArchiveName(zip_path) IN
    IF root_dir \notin DOMAIN f \/ f[root_dir].kind # "dir"
      THEN FsRaise(f, "NotADirectoryError")
    ELSE IF f[archive].kind \notin {"none", "file"}
      THEN FsRaise(f, "IsADirectoryError")
    ELSE FsOk([f EXCEPT ![archive] =
                 [kind |-> "file", data |-> "zip",
                  files |-> f[root_dir].files]])

\* zip_deployment
zip_deployment(f, dir) ==
  LET zip_name == dir IN make_archive(f, zip_name, dir)

\* deploy_it swallowing the exception of a step
deploy_it_continue(step, ok) ==
  IF step = "start" THEN "loaded"
  ELSE IF step = "loaded" THEN "inited"
  ELSE IF step = "inited" THEN "populated"
  ELSE "done"

\* deploy_it: the steps run in this order and an exception ends the run
deploy_it(step, ok) ==
  IF ~ok THEN "failed"
  ELSE IF step = "start" THEN "loaded"
  ELSE IF step = "loaded" THEN "inited"
  ELSE IF step = "inited" THEN "populated"
  ELSE "done"

(* ------------------------------- inputs -------------------------------- *)

Version(major, minor, patch) ==
  [major |-> major, minor |-> minor, patch |-> patch]

Block(name, version, enabled) ==
  [name |-> name, versionNumber |-> version, enabled |-> enabled]

ModA == Block(YStr("A"), Version(1, 0, 0), YBool(TRUE))

ModB == Block(YStr("B"), Version(2, 1, 0), YBool(TRUE))

\* a disabled record carrying a field the loader does not read
ModC ==
  [name |-> YStr("C"), versionNumber |-> Version(0, 3, 12),
   enabled |-> YBool(FALSE), url |-> YStr("https://c.example")]

NoName == [versionNumber |-> Version(1, 0, 0), enabled |-> YBool(TRUE)]

NoVersion == [name |-> YStr("D"), enabled |-> YBool(FALSE)]

NoEnabled == [name |-> YStr("E"), versionNumber |-> Version(1, 0, 0)]

ShortVersion ==
  Block(YStr("F"), [major |-> 1, minor |-> 0], YBool(FALSE))

LongVersion ==
  Block(YStr("G"), [major |-> 1, minor |-> 0, patch |-> 0, build |-> 7],
        YBool(TRUE))

EnabledStr == Block(YStr("H"), Version(1, 0, 0), YStr("yes"))

EnabledInt == Block(YStr("I"), Version(1, 0, 0), YInt(0))

NameInt == Block(YInt(7), Version(1, 0, 0), YBool(TRUE))

GoodBlocks == {ModA, ModB, ModC}

BadBlocks ==
  {NoName, NoVersion, NoEnabled, ShortVersion, LongVersion, EnabledStr,
   EnabledInt, NameInt}

PipelineBlocks == GoodBlocks \cup {ShortVersion}

SeqsUpTo(S, n) == UNION {[1..k -> S] : k \in 0..n}

ManifestData(name, dependencies) ==
  [name |-> name, version_number |-> "1.0.0",
   website_url |-> "https://example.org", description |-> "mod pack",
   dependencies |-> dependencies]

GoodTemplate == ManifestData("SivadPack", <<>>)

OtherTemplate == ManifestData("OtherPack", <<>>)

DepsTemplate == ManifestData("SivadPack", <<"Old-0.0.1">>)

NoDescriptionTemplate ==
  [name |-> "SivadPack", version_number |-> "1.0.0",
   website_url |-> "https://example.org", dependencies |-> <<>>]

Templates == {GoodTemplate, OtherTemplate, DepsTemplate, NoDescriptionTemplate}

StaticNames == {STATIC_TEMPLATE_FILES[i] : i \in 1..Len(STATIC_TEMPLATE_FILES)}

OldManifest == File(to_json(ManifestData("OldPack", <<"Old-0.0.1">>)))

\* what an existing deployment directory may hold before a run
StaleDirs ==
  { <<>>,
    "stale.txt" :> File("stale"),
    "icon.png" :> File("old icon"),
    ("icon.png" :> File(AssetData("icon.png"))) @@
      ("README.md" :> File(AssetData("README.md"))),
    ("icon.png" :> File("old icon")) @@ (MANIFEST_NAME :> OldManifest) @@
      ("stale.txt" :> File("stale")) @@ ("sub" :> SubDir) }

InitDirEntries ==
  {NoEntry,
   [kind |-> "file", data |-> "junk", files |-> <<>>],
   [kind |-> "symlink", data |-> "", files |-> <<>>]} \cup
  {[kind |-> "dir", data |-> "", files |-> d] : d \in StaleDirs}

InitZipEntries ==
  {NoEntry,
   [kind |-> "file", data |-> "zip",
    files |-> ("old.txt" :> File("stale")) @@ (MANIFEST_NAME :> OldManifest)],
   EmptyDir}

NoFiles == [p \in Paths |-> NoEntry]

Unseen == [path |-> "", kind |-> "unseen", files |-> <<>>]

NoPrev == [set |-> FALSE, path |-> "", files |-> <<>>]

(* ------------------------------- actions ------------------------------- *)

InitRun ==
  /\ today = 1
  /\ pc = "start"
  /\ mods = <<>>
  /\ deploy_dir = ""
  /\ found = Unseen
  /\ failed_step = "none"
  /\ runs = 1
  /\ prev = NoPrev

Init ==
  /\ yaml_data \in SeqsUpTo(PipelineBlocks, MaxMods)
  /\ template \in Templates
  /\ assets \in SUBSET StaticNames
  /\ deploy_root \in {"none", "file", "dir"}
  /\ \E d \in InitDirEntries, z \in InitZipEntries :
       fs = IF deploy_root = "dir"
              THEN [NoFiles EXCEPT ![DeployName(1)] = d,
                                   ![ArchiveName(DeployName(1))] = z]
              ELSE NoFiles
  /\ InitRun

\* step 1 of deploy_it: mods = load_sources()
LoadSources ==
  /\ pc = "start"
  /\ LET loaded == load_sources(yaml_data) IN
       /\ mods' = IF loaded.ok THEN loaded.val ELSE mods
       /\ pc' = deploy_it(pc, loaded.ok)
       /\ failed_step' = IF loaded.ok THEN failed_step ELSE "load"
  /\ UNCHANGED <<inputs, fs, today, deploy_dir, found, runs, prev>>

\* step 2 of deploy_it: deploy_dir = init_deployment()
InitDeployment ==
  /\ pc = "loaded"
  /\ LET deployment_path == DeployName(today)
         inited == init_deployment(fs, today)
     IN  /\ found' = [path |-> deployment_path,
                      kind |-> IF exists(fs, deployment_path)
                                 THEN fs[deployment_path].kind ELSE "none",
                      files |-> fs[deployment_path].files]
         /\ fs' = inited.fs
         /\ deploy_dir' = IF inited.ok THEN deployment_path ELSE deploy_dir
         /\ pc' = deploy_it(pc, inited.ok)
         /\ failed_step' = IF inited.ok THEN failed_step ELSE "init"
  /\ UNCHANGED <<inputs, today, mods, runs, prev>>

\* step 3 of deploy_it: populate_dependencies(mods, deploy_dir)
PopulateDependencies ==
  /\ pc = "inited"
  /\ LET populated == populate_dependencies(mods, fs, deploy_dir) IN
       /\ fs' = populated.fs
       /\ pc' = deploy_it(pc, populated.ok)
       /\ failed_step' = IF populated.ok THEN failed_step ELSE "populate"
  /\ UNCHANGED <<inputs, today, mods, deploy_dir, found, runs, prev>>

\* step 4 of deploy_it: zip_deployment(deploy_dir)
ZipDeployment ==
  /\ pc = "populated"
  /\ LET zipped == zip_deployment(fs, deploy_dir) IN
       /\ fs' = zipped.fs
       /\ pc' = deploy_it(pc, zipped.ok)
       /\ failed_step' = IF zipped.ok THEN failed_step ELSE "zip"
  /\ UNCHANGED <<inputs, today, mods, deploy_dir, found, runs, prev>>

\* deploy_it is invoked again after a run has completed or failed
StartRun ==
  /\ pc \in {"done", "failed"}
  /\ runs < MaxRuns
  /\ runs' = runs + 1
  /\ prev' = IF pc = "done"
               THEN [set |-> TRUE, path |-> deploy_dir,
                     files |-> fs[deploy_dir].files]
               ELSE prev
  /\ pc' = "start"
  /\ mods' = <<>>
  /\ deploy_dir' = ""
  /\ found' = Unseen
  /\ failed_step' = "none"
  /\ UNCHANGED <<inputs, fs, today>>

\* midnight passes: datetime.now() yields the next calendar day
Tick ==
  /\ today < MaxDay
  /\ today' = today + 1
  /\ UNCHANGED <<inputs, fs, pc, mods, deploy_dir, found, failed_step, runs,
                 prev>>

Next ==
  \/ LoadSources
  \/ InitDeployment
  \/ PopulateDependencies
  \/ ZipDeployment
  \/ StartRun
  \/ Tick

Spec == Init /\ [][Next]_vars

\* load_sources alone, over every kind of record
InitLoad ==
  /\ yaml_data \in SeqsUpTo(GoodBlocks \cup BadBlocks, MaxMods)
  /\ template = GoodTemplate
  /\ assets = StaticNames
  /\ deploy_root = "dir"
  /\ fs = NoFiles
  /\ InitRun

NextLoad == LoadSources

SpecLoad == InitLoad /\ [][NextLoad]_vars

TypeOK ==
  /\ pc \in {"start", "loaded", "inited", "populated", "done", "failed"}
  /\ failed_step \in {"none", "load", "init", "populate", "zip"}
  /\ today \in 1..MaxDay
  /\ runs \in 1..MaxRuns
  /\ DOMAIN fs = Paths

(* ---------------------- vocabulary of the properties ------------------- *)

HasKeys(block) == {"name", "versionNumber", "enabled"} \subseteq DOMAIN block

\* a valid record: string name, version keys exactly major/minor/patch,
\* enabled literally true or false
ValidBlock(block) ==
  /\ HasKeys(block)
  /\ block["name"].t = "str"
  /\ DOMAIN block["versionNumber"] = {"major", "minor", "patch"}
  /\ block["enabled"].t = "bool"

\* a record with a missing key, a wrong version key set or a non-boolean
\* enabled value
BadRecord(block) ==
  \/ ~HasKeys(block)
  \/ DOMAIN block["versionNumber"] # {"major", "minor", "patch"}
  \/ block["enabled"].t # "bool"

AllValid == \A i \in 1..Len(yaml_data) : ValidBlock(yaml_data[i])

\* positions of the enabled records of a valid file
EnabledAt == {i \in 1..Len(yaml_data) : yaml_data[i]["enabled"].v}

\* the k-th smallest element of a set of positions
Nth(S, k) == CHOOSE i \in S : Cardinality({j \in S : j < i}) = k - 1

\* "{name}-{major}.{minor}.{patch}"
QualifiedId(block) ==
  block["name"].v \o "-" \o ToString(block["versionNumber"]["major"]) \o "."
    \o ToString(block["versionNumber"]["minor"]) \o "."
    \o ToString(block["versionNumber"]["patch"])

\* qualified ids of the enabled records, in file order
ExpectedDeps ==
  [k \in 1..Cardinality(EnabledAt) |-> QualifiedId(yaml_data[Nth(EnabledAt, k)])]

\* member `key` of a JSON document
Field(doc, key) == doc[CHOOSE i \in 1..Len(doc) : doc[i][1] = key][2]

ExpectedManifest ==
  << <<"name", template["name"]>>,
     <<"version_number", template["version_number"]>>,
     <<"website_url", template["website_url"]>>,
     <<"description", template["description"]>>,
     <<"dependencies", ExpectedDeps>> >>

\* a directory or archive holding exactly the static files as in template/
StaticCopies(files) ==
  \A n \in {"icon.png", "README.md"} :
    n \in DOMAIN files /\ files[n] = [kind |-> "file", data |-> AssetData(n)]

ExactlyStatic(files) ==
  DOMAIN files = {"icon.png", "README.md"} /\ StaticCopies(files)

ExactlyBundle(files) ==
  /\ DOMAIN files = {"icon.png", "README.md", "manifest.json"}
  /\ StaticCopies(files)
  /\ files["manifest.json"] = [kind |-> "file", data |-> ExpectedManifest]

ArchivePaths == {ArchiveName(DeployName(d)) : d \in 1..MaxDay}

ExpectedNames ==
  {"sivad_30-12-25", "sivad_31-12-25", "sivad_01-01-26", "sivad_02-01-26",
   "sivad_03-01-26"}

(* ------------------------------ properties ----------------------------- *)

\* C1: for a file of valid records, load_sources returns exactly the records
\* whose enabled flag is true, once each and in file order.
C1_EnabledSubsetInOrder ==
  (pc # "start" /\ AllValid) =>
    /\ failed_step # "load"
    /\ Len(mods) = Cardinality(EnabledAt)
    /\ \A k \in 1..Len(mods) :
         LET block == yaml_data[Nth(EnabledAt, k)] IN
           /\ mods[k].name = block["name"].v
           /\ mods[k].semver_string = QualifiedId(block)
           /\ mods[k].is_enabled = TRUE

C1_Witness ==
  /\ pc = "loaded"
  /\ AllValid
  /\ Len(yaml_data) = 2
  /\ Len(mods) = 1
  /\ yaml_data[1]["enabled"].v = FALSE

\* C7: a file with any record that misses a key, has a wrong version key set
\* or a non-boolean enabled value makes load_sources fail with no list
\* returned, whether that record is enabled or not.
C7_BadRecordFailsLoad ==
  (pc # "start" /\ \E i \in 1..Len(yaml_data) : BadRecord(yaml_data[i])) =>
    (pc = "failed" /\ failed_step = "load" /\ mods = <<>>)

C7_Witness ==
  /\ pc = "failed"
  /\ failed_step = "load"
  /\ Len(yaml_data) = 2
  /\ yaml_data[1] = ModA
  /\ yaml_data[2] = ShortVersion

\* C2: the manifest written from a template with empty dependencies lists the
\* qualified ids of the enabled mods, one per mod in the order of the mod
\* sequence, and carries the template's other four fields.
C2_ManifestDependencies ==
  (pc \in {"populated", "done"} /\ template["dependencies"] = <<>>) =>
    LET doc == fs[deploy_dir].files["manifest.json"].data IN
      /\ Len(Field(doc, "dependencies")) = Len(mods)
      /\ \A k \in 1..Len(mods) :
           /\ Field(doc, "dependencies")[k] =
                QualifiedId(yaml_data[Nth(EnabledAt, k)])
           /\ mods[k].name = yaml_data[Nth(EnabledAt, k)]["name"].v
      /\ \A key \in {"name", "version_number", "website_url", "description"} :
           Field(doc, key) = template[key]

C2_Witness ==
  /\ pc = "populated"
  /\ template = OtherTemplate
  /\ yaml_data = <<ModA, ModB>>
  /\ Field(fs[deploy_dir].files["manifest.json"].data, "dependencies") =
       <<"A-1.0.0", "B-2.1.0">>

\* C3: after a run that completes, the archive <deployment name>.zip beside
\* the deployment directory holds exactly the icon, the readme and
\* manifest.json with the dependency list of the enabled mods.
C3_ArchiveHoldsBundle ==
  pc = "done" =>
    /\ deploy_dir \in ExpectedNames
    /\ fs[deploy_dir \o ".zip"].kind = "file"
    /\ ExactlyBundle(fs[deploy_dir \o ".zip"].files)

C3_Witness ==
  /\ pc = "done"
  /\ runs = 1
  /\ found.kind = "dir"
  /\ "stale.txt" \in DOMAIN found.files
  /\ Len(mods) = 2

\* C4: when the deployment path was a directory, whatever it held, the
\* directory init_deployment returns holds exactly icon.png and README.md.
C4_StaleDirectoryReset ==
  (pc = "inited" /\ found.kind = "dir") =>
    /\ deploy_dir = found.path
    /\ fs[deploy_dir].kind = "dir"
    /\ ExactlyStatic(fs[deploy_dir].files)

C4_Witness ==
  /\ pc = "inited"
  /\ found.kind = "dir"
  /\ {"sub", "stale.txt", "manifest.json"} \subseteq DOMAIN found.files

\* C5: when the deployment path is a regular file, init_deployment raises and
\* leaves the filesystem exactly as it was.
C5_FileCollisionUntouched ==
  [][(pc = "loaded" /\ pc' # pc /\ is_file(fs, DeployName(today))) =>
       (pc' = "failed" /\ failed_step' = "init" /\ fs' = fs)]_vars

C5_Witness ==
  /\ pc = "failed"
  /\ failed_step = "init"
  /\ found.kind = "file"
  /\ fs[found.path].data = "junk"

\* C6: with a template whose dependencies are not empty the manifest step
\* raises and writes nothing: manifest.json is neither created nor modified.
C6_NonEmptyTemplateWritesNothing ==
  [][(/\ pc = "inited"
      /\ pc' # pc
      /\ "dependencies" \in DOMAIN template
      /\ template["dependencies"] # <<>>) =>
       (pc' = "failed" /\ failed_step' = "populate" /\ fs' = fs)]_vars

C6_Witness ==
  /\ pc = "failed"
  /\ failed_step = "populate"
  /\ template = DepsTemplate
  /\ "manifest.json" \notin DOMAIN fs[deploy_dir].files

\* C8: a run that completes leaves a deployment directory that depends on
\* the inputs only, whatever the directory and the archive held before; a
\* second completed run on the same day leaves the same directory, with the
\* same manifest.json, as the first.
C8_IdempotentByReset ==
  pc = "done" =>
    /\ ExactlyBundle(fs[deploy_dir].files)
    /\ (prev.set /\ prev.path = deploy_dir) =>
         /\ fs[deploy_dir].files = prev.files
         /\ fs[deploy_dir].files["manifest.json"] = prev.files["manifest.json"]

C8_Witness ==
  /\ pc = "done"
  /\ runs = 2
  /\ prev.set
  /\ prev.path = deploy_dir
  /\ Len(mods) >= 1

\* C9: the steps run in the order load, init, manifest, archive; a step that
\* raises ends the run with nothing further changed and nothing undone; a
\* failed load changes no file, a failed manifest step leaves the static
\* files and every archive as they were, and an archive is written only by
\* the archive step, after manifest.json.
C9_Transitions ==
  {<<"start", "loaded">>, <<"loaded", "inited">>, <<"inited", "populated">>,
   <<"populated", "done">>, <<"start", "failed">>, <<"loaded", "failed">>,
   <<"inited", "failed">>, <<"populated", "failed">>, <<"done", "start">>,
   <<"failed", "start">>}

C9_Step ==
  /\ pc' # pc => <<pc, pc'>> \in C9_Transitions
  /\ failed_step' # "none" => pc' = "failed"
  /\ failed_step # "none" /\ failed_step' # "none" => fs' = fs
  /\ pc = "start" => fs' = fs
  /\ pc \in {"inited", "populated"} /\ pc' = "failed" =>
       fs' = fs /\ StaticCopies(fs'[deploy_dir].files)
  /\ pc = "populated" /\ pc' = "failed" =>
       "manifest.json" \in DOMAIN fs'[deploy_dir].files
  /\ (\E a \in ArchivePaths : fs'[a] # fs[a]) =>
       /\ pc = "populated"
       /\ pc' = "done"
       /\ "manifest.json" \in DOMAIN fs[deploy_dir].files

C9_OrderedAbort == [][C9_Step]_vars

C9_Witness ==
  /\ pc = "failed"
  /\ failed_step = "populate"
  /\ ExactlyStatic(fs[deploy_dir].files)
  /\ fs[deploy_dir \o ".zip"].kind = "file"

\* C10 as stated: whenever nothing is at the deployment path, init_deployment
\* creates the directory and, with the assets present, returns it holding
\* exactly the static files.
C10_Original ==
  found.kind = "none" =>
    /\ fs[found.path].kind = "dir"
    /\ assets = {"icon.png", "README.md"} =>
         /\ failed_step # "init"
         /\ pc = "inited" =>
              deploy_dir = found.path /\ ExactlyStatic(fs[deploy_dir].files)

\* C10 amended: the same, provided DEPLOY_DIR itself exists as a directory
\* (mkdir does not create parents).
C10_CreatesWhenParentExists ==
  (found.kind = "none" /\ deploy_root = "dir") =>
    /\ fs[found.path].kind = "dir"
    /\ assets = {"icon.png", "README.md"} =>
         /\ failed_step # "init"
         /\ pc = "inited" =>
              deploy_dir = found.path /\ ExactlyStatic(fs[deploy_dir].files)

C10_Witness ==
  /\ pc = "inited"
  /\ found.kind = "none"
  /\ deploy_root = "dir"
  /\ ExactlyStatic(fs[deploy_dir].files)
====
